---- MODULE Spec2Model ----
(***************************************************************************)
(* A model of the mini-chatgpt backend: the ConversationService            *)
(* (conversation and message persistence through Prisma/PostgreSQL, cursor *)
(* pagination, sendMessage orchestration) and the two LLM adapters'        *)
(* fetchWithRetry state machine.                                           *)
(*                                                                         *)
(* Conventions                                                             *)
(*   - ids (cuid) are modelled by naturals handed out in creation order;   *)
(*     0 stands for null / "no row".                                       *)
(*   - timestamps (createdAt, lastMessageAt) are naturals read from the    *)
(*     clock `now`; the clock has millisecond resolution, so two rows      *)
(*     created one after the other may carry the same timestamp. 0 stands  *)
(*     for a null lastMessageAt.                                           *)
(*   - every `await` of the source is a suspension point: each action is   *)
(*     the code that runs between two awaits together with the database    *)
(*     statement it awaits.                                                *)
(***************************************************************************)
EXTENDS Integers, Sequences, FiniteSets, TLC

\* ------------------------------------------------------------------ bounds
MaxConvs == 1          \* Spec: createConversation calls made in one behaviour
MaxCalls == 2          \* sendMessage calls made in one behaviour
MaxTime == 2           \* the clock stops advancing at this value
MaxRows == 4           \* Spec: rows (conversations and messages) inserted in one behaviour
MaxLimit == 2          \* SpecPage: the page sizes (limit) a client asks for
PageMaxRows == 4       \* SpecPage: rows inserted in one behaviour
MaxSeen == 3           \* SpecPage: messages a client collects along one walk
NumMaxConvs == 3       \* SpecNum: createConversation calls made in one behaviour
NumMaxPending == 2     \* SpecNum: createConversation calls awaiting their insert
MaxRestarts == 1       \* SpecNum: service restarts in one behaviour
MaxConfigured == 3     \* SpecRetry: the largest maxRetries a configuration sets
MaxListed == 2         \* SpecUndo: conversations the backend lists to the client
MaxDeletes == 3        \* SpecUndo: clicks on delete in one behaviour
TurnMaxRows == 5       \* SpecTurns: rows inserted in one behaviour
MaxShown == 4          \* SpecView, SpecUi: messages the conversation view holds

\* ------------------------------------------------------- program constants
DefaultMaxRetries == 2         \* `config.maxRetries || 2`
DefaultRetryDelayMs == 1000    \* `config.retryDelayMs || 1000`
DefaultLimit == 20             \* `limit: number = 20`

Calls == 1..MaxCalls

VARIABLES
    conversations,        \* table "Conversation": set of rows
    messages,             \* table "Message": set of rows
    nextId,               \* the next cuid to hand out (ids sort in creation order)
    now,                  \* the clock
    conversationCounter,  \* ConversationService.conversationCounter
    initPc,               \* position of the constructor's initCounter()
    initCount,            \* the count initCounter() has read and not yet stored
    creating,             \* createConversation calls awaiting prisma.create: their numbers
    send,                 \* sendMessage calls: position and locals of each
    resp,                 \* the last error deleteConversation / getConversation threw
    epoch,                \* history: the number of restarts so far
    titles,               \* history: numbers handed out, in call order, with the epoch
    ever,                 \* history: every conversation row ever inserted
    get,                  \* the getConversation call in progress: position and locals
    page,                 \* what the last getConversation returned
    walk,                 \* history: the client's walk along the cursors
    llm,                  \* the complete() call of an adapter: position and locals
    log,                  \* history: the outcome of each attempt of that call
    ui,                   \* the browser client: the ChatArea's send in progress
    list,                 \* what the last listConversations call returned
    app                   \* the browser client: the App's conversation list and undo state

dbVars == <<conversations, messages, nextId, now>>
counterVars == <<conversationCounter, initPc, initCount, creating, epoch, titles, ever>>
getVars == <<get, page, walk>>
adapterVars == <<llm, log>>

vars == <<dbVars, counterVars, send, resp, getVars, adapterVars, ui, list, app>>

\* ------------------------------------------------------------------ rows
NoMsg == [id |-> 0, conversationId |-> 0, role |-> "none", content |-> "none",
          createdAt |-> 0]

ConvIds == {c.id : c \in conversations}

ConvRow(id) == CHOOSE c \in conversations : c.id = id

MessagesOf(id) == {m \in messages : m.conversationId = id}

\* createdAt DEFAULT CURRENT_TIMESTAMP: the clock read at insert time. The
\* clock may or may not have advanced since the previous read.
Times == {t \in {now, now + 1} : t <= MaxTime}

\* The orders in which the database may return the rows S for
\* `orderBy: {createdAt: 'desc'}`: rows with equal createdAt come in any
\* order (the ORDER BY names no other column).
OrderByCreatedAtDesc(S) ==
    {s \in [1..Cardinality(S) -> S] :
        /\ \A i, j \in 1..Cardinality(S) : i # j => s[i] # s[j]
        /\ \A i, j \in 1..Cardinality(S) : i < j => s[i].createdAt >= s[j].createdAt}

\* The same for `orderBy: {createdAt: 'asc'}`.
OrderByCreatedAtAsc(S) ==
    {s \in [1..Cardinality(S) -> S] :
        /\ \A i, j \in 1..Cardinality(S) : i # j => s[i] # s[j]
        /\ \A i, j \in 1..Cardinality(S) : i < j => s[i].createdAt <= s[j].createdAt}

\* `take: n` and Array.prototype.slice(0, n).
Take(s, n) == SubSeq(s, 1, IF Len(s) < n THEN Len(s) ELSE n)

\* Array.prototype.reverse().
Reverse(s) == [i \in 1..Len(s) |-> s[Len(s) + 1 - i]]

\* ------------------------------------------------------------------ calls
\* A sendMessage call: its position, its arguments (conversationId,
\* content), its locals (the lastMessageAt and the messages of the
\* `conversation` row it read, userMessage, the `messages` array it built,
\* response.completion, assistantMessage), whether it has invoked
\* llmAdapter.complete, the error it threw, and whether the client has
\* aborted the request.
IdleCall == [pc |-> "idle", conversationId |-> 0, content |-> "none",
             lastAtBefore |-> 0, history |-> <<>>,
             userMessage |-> NoMsg, messages |-> <<>>, invoked |-> FALSE,
             response |-> "none",
             assistantMessage |-> NoMsg, error |-> "none", aborted |-> FALSE]

\* Errors: "ConversationNotFound" is `new Error('Conversation not found')`;
\* "RecordNotFound" is Prisma's P2025 (delete / update of a row that does not
\* exist); "ForeignKey" is Prisma's P2003 (Message_conversationId_fkey);
\* "Adapter" is whatever llmAdapter.complete threw.
NotFoundErrors == {"ConversationNotFound", "RecordNotFound"}

\* A getConversation call: its position, arguments and locals, and
\* (history) the ids of the conversation's messages that existed when its
\* first findMany ran.
IdleGet == [pc |-> "idle", id |-> 0, cursor |-> 0, limit |-> 0,
            pageMessages |-> <<>>, nextCursor |-> 0, existing |-> {}]

NoPage == [cursor |-> 0, messages |-> <<>>, nextCursor |-> 0, prevCursor |-> 0]

NoWalk == [via |-> "none", snapshot |-> {}, seen |-> <<>>, from |-> NoPage]

\* An error object: its name and its message, the message as the sequence
\* of its parts.
NoError == [name |-> "none", message |-> <<>>]

\* A complete() call: its position, the adapter it runs in, the maxRetries
\* of the configuration (cfg) and of the adapter, the adapter's retryDelayMs,
\* the `attempt` argument of the running fetchWithRetry, the delays waited so
\* far, what it returned or threw, and (history) the attempt during which
\* its caller cancelled.
IdleLlm == [pc |-> "idle", adapter |-> "none", cfg |-> <<>>, maxRetries |-> 0,
            retryDelayMs |-> 0, attempt |-> 0, delays |-> <<>>, result |-> "none", error |-> NoError,
            cancelledAt |-> <<>>]

\* The ChatArea and its send: the position of handleSend / handleSendMessage
\* / fetchApi, the `sending` state, abortControllerRef.current, the signal of
\* the send's controller, the response, the message handed to onError, the
\* App's `error` state (the banner), (history) whether Cancel was clicked
\* during this send, and the conversation the request was sent to
\* (`currentConv.id` when handleSendMessage ran).
IdleUi == [pc |-> "idle", sending |-> FALSE, ref |-> "null", signal |-> "none",
           response |-> <<>>, onError |-> "none", banner |-> "none",
           cancelled |-> FALSE, to |-> 0]

\* The ids of the conversations the backend may list to the browser client.
ListedIds == 1..MaxListed

\* `currentConv` when it is null: no conversation is shown.
NoConv == [id |-> 0, messages |-> <<>>]

\* The App: its state `conversations` (ids, in list order), whether the
\* mount's loadConversations has resolved, deletedConvId, deletedConv,
\* undoTimeout (a timer handle, 0 for null), the timers that are armed (each
\* with the id and the `deletedConv` its callback closed over), the next
\* handle setTimeout returns, the delete requests in flight, and (history)
\* per conversation the user's deletions that were not undone (kept) and
\* the delete requests sent; selectedConvId (0 for null), currentConv (the
\* conversation the ChatArea shows) and the getConversation requests of
\* loadConversation that are in flight.
IdleApp == [conversations |-> <<>>, loaded |-> FALSE, deletedConvId |-> 0,
            deletedConv |-> 0, undoTimeout |-> 0, timers |-> {}, nextTimer |-> 1,
            requests |-> {},
            kept |-> [id \in ListedIds |-> 0], sent |-> [id \in ListedIds |-> 0],
            selectedConvId |-> 0, currentConv |-> NoConv, loads |-> {}]

\* No listing: listConversations has not been called (calls = 0).
NoList == [calls |-> 0, rows |-> <<>>]

Init ==
    /\ conversations = {}
    /\ messages = {}
    /\ nextId = 1
    /\ now = 1
    /\ conversationCounter = 0
    /\ initPc = "count"
    /\ initCount = 0
    /\ creating = <<>>
    /\ send = [p \in Calls |-> IdleCall]
    /\ resp = [op |-> "none", id |-> 0, error |-> "none"]
    /\ epoch = 0
    /\ titles = <<>>
    /\ ever = {}
    /\ get = IdleGet
    /\ page = NoPage
    /\ walk = NoWalk
    /\ llm = IdleLlm
    /\ log = <<>>
    /\ ui = IdleUi
    /\ list = NoList
    /\ app = IdleApp

\* The message texts a client sends and the completions the LLM backend
\* answers with.
Contents == {"Hello", "And you?"}

Completions == {"Hi there", "Fine"}

\* ------------------------------------------------- ConversationService
\* initCounter(): `const count = await prisma.conversation.count()`.
InitCounterCount ==
    /\ initPc = "count"
    /\ initCount' = Cardinality(conversations)
    /\ initPc' = "assign"
    /\ UNCHANGED <<dbVars, conversationCounter, creating, epoch, titles, ever,
                   send, resp, getVars, adapterVars, ui, list, app>>

\* initCounter(): `this.conversationCounter = count`, once the count resolved.
InitCounterAssign ==
    /\ initPc = "assign"
    /\ conversationCounter' = initCount
    /\ initPc' = "done"
    /\ UNCHANGED <<dbVars, initCount, creating, epoch, titles, ever,
                   send, resp, getVars, adapterVars, ui, list, app>>

\* createConversation(): `this.conversationCounter++` and the title, up to
\* the await of prisma.conversation.create.
CreateConversationBegin ==
    /\ conversationCounter' = conversationCounter + 1
    /\ creating' = Append(creating, conversationCounter + 1)
    /\ titles' = Append(titles, [epoch |-> epoch, num |-> conversationCounter + 1])
    /\ UNCHANGED <<dbVars, initPc, initCount, epoch, ever, send, resp, getVars, adapterVars, ui, list, app>>

RemoveAt(s, i) == [j \in 1..(Len(s) - 1) |-> IF j < i THEN s[j] ELSE s[j + 1]]

\* createConversation(): prisma.conversation.create({data: {title}}).
CreateConversationInsert(i) ==
    /\ i \in 1..Len(creating)
    /\ \E t \in Times :
        LET row == [id |-> nextId, num |-> creating[i], createdAt |-> t,
                    lastMessageAt |-> 0]
        IN /\ conversations' = conversations \cup {row}
           /\ ever' = ever \cup {[id |-> nextId, num |-> creating[i], epoch |-> epoch]}
           /\ now' = t
    /\ nextId' = nextId + 1
    /\ creating' = RemoveAt(creating, i)
    /\ UNCHANGED <<messages, conversationCounter, initPc, initCount, epoch, titles,
                   send, resp, getVars, adapterVars, ui, list, app>>

\* Mutant of DeleteConversation: the foreign key without ON DELETE CASCADE
\* handling, the conversation row goes and its messages stay.
DeleteConversationNoCascade(id) ==
    /\ IF id \in ConvIds
       THEN /\ conversations' = {c \in conversations : c.id # id}
            /\ UNCHANGED <<messages, resp>>
       ELSE /\ resp' = [op |-> "delete", id |-> id, error |-> "RecordNotFound"]
            /\ UNCHANGED <<conversations, messages>>
    /\ UNCHANGED <<nextId, now, counterVars, send, getVars, adapterVars, ui, list, app>>

\* deleteConversation(id): prisma.conversation.delete; the foreign key is
\* ON DELETE CASCADE, so the messages go in the same statement. Deleting a
\* row that does not exist throws P2025.
DeleteConversation(id) ==
    /\ IF id \in ConvIds
       THEN /\ conversations' = {c \in conversations : c.id # id}
            /\ messages' = {m \in messages : m.conversationId # id}
            /\ UNCHANGED resp
       ELSE /\ resp' = [op |-> "delete", id |-> id, error |-> "RecordNotFound"]
            /\ UNCHANGED <<conversations, messages>>
    /\ UNCHANGED <<nextId, now, counterVars, send, getVars, adapterVars, ui, list, app>>

\* Mutant of SendFind: the `if (!conversation) throw` is missing.
SendFindNoCheck(p, id, content) ==
    /\ send[p].pc = "idle"
    /\ \E found \in OrderByCreatedAtAsc(MessagesOf(id)) :
          send' = [send EXCEPT ![p] = [@ EXCEPT !.pc = "create_user",
                                                !.conversationId = id,
                                                !.content = content,
                                                !.history = found]]
    /\ UNCHANGED <<dbVars, counterVars, resp, getVars, adapterVars, ui, list, app>>

\* Mutant of SendFind: sendMessage calls on one conversation exclude each
\* other, a call waits until no other call on the conversation is being
\* served.
SendFindLocked(p, id, content) ==
    /\ send[p].pc = "idle"
    /\ \A q \in Calls \ {p} :
          ~(send[q].conversationId = id
              /\ send[q].pc \in {"create_user", "awaiting", "create_assistant", "update"})
    /\ IF id \in ConvIds
       THEN \E found \in OrderByCreatedAtAsc(MessagesOf(id)) :
               send' = [send EXCEPT ![p] = [@ EXCEPT !.pc = "create_user",
                                                     !.conversationId = id,
                                                     !.content = content,
                                                     !.lastAtBefore = ConvRow(id).lastMessageAt,
                                                     !.history = found]]
       ELSE send' = [send EXCEPT ![p] = [@ EXCEPT !.pc = "failed",
                                                  !.conversationId = id,
                                                  !.content = content,
                                                  !.error = "ConversationNotFound"]]
    /\ UNCHANGED <<dbVars, counterVars, resp, getVars, adapterVars, ui, list, app>>

\* sendMessage(conversationId, content): prisma.conversation.findUnique with
\* `include: {messages: {orderBy: {createdAt: 'asc'}}}` (the conversation's
\* messages as they are now, oldest first) and the `if (!conversation) throw`.
SendFind(p, id, content) ==
    /\ send[p].pc = "idle"
    /\ IF id \in ConvIds
       THEN \E found \in OrderByCreatedAtAsc(MessagesOf(id)) :
               send' = [send EXCEPT ![p] = [@ EXCEPT !.pc = "create_user",
                                                     !.conversationId = id,
                                                     !.content = content,
                                                     !.lastAtBefore = ConvRow(id).lastMessageAt,
                                                     !.history = found]]
       ELSE send' = [send EXCEPT ![p] = [@ EXCEPT !.pc = "failed",
                                                  !.conversationId = id,
                                                  !.content = content,
                                                  !.error = "ConversationNotFound"]]
    /\ UNCHANGED <<dbVars, counterVars, resp, getVars, adapterVars, ui, list, app>>

\* prisma.message.create: the row is inserted unless the foreign key
\* Message_conversationId_fkey rejects it.
InsertMessage(id, role, content, t) ==
    [id |-> nextId, conversationId |-> id, role |-> role, content |-> content,
     createdAt |-> t]

\* "Build conversation history for LLM": the role and content of each
\* message the call read, then the new user turn.
BuildHistory(found, content) ==
    [i \in 1..(Len(found) + 1) |->
        IF i <= Len(found)
        THEN [role |-> found[i].role, content |-> found[i].content]
        ELSE [role |-> "user", content |-> content]]

\* Mutant of SendCreateUser: complete is invoked without the user message
\* having been saved first.
SendCreateUserNotSaved(p) ==
    /\ send[p].pc = "create_user"
    /\ send' = [send EXCEPT ![p] =
                   [@ EXCEPT !.pc = "awaiting",
                             !.messages = BuildHistory(send[p].history, send[p].content),
                             !.invoked = TRUE]]
    /\ UNCHANGED <<dbVars, counterVars, resp, getVars, adapterVars, ui, list, app>>

\* sendMessage: "Save user message", then the history is built and
\* llmAdapter.complete is invoked (pc = "awaiting").
SendCreateUser(p) ==
    /\ send[p].pc = "create_user"
    /\ IF send[p].conversationId \in ConvIds
       THEN \E t \in Times :
               LET m == InsertMessage(send[p].conversationId, "user", send[p].content, t)
               IN /\ messages' = messages \cup {m}
                  /\ send' = [send EXCEPT ![p] =
                        [@ EXCEPT !.pc = "awaiting",
                                  !.userMessage = m,
                                  !.messages = BuildHistory(send[p].history, send[p].content),
                                  !.invoked = TRUE]]
                  /\ now' = t
                  /\ nextId' = nextId + 1
       ELSE /\ send' = [send EXCEPT ![p] = [@ EXCEPT !.pc = "failed",
                                                     !.error = "ForeignKey"]]
            /\ UNCHANGED <<messages, now, nextId>>
    /\ UNCHANGED <<conversations, counterVars, resp, getVars, adapterVars, ui, list, app>>

\* sendMessage: llmAdapter.complete resolved with {completion}.
SendAdapterOk(p, completion) ==
    /\ send[p].pc = "awaiting"
    /\ send' = [send EXCEPT ![p] = [@ EXCEPT !.pc = "create_assistant",
                                             !.response = completion]]
    /\ UNCHANGED <<dbVars, counterVars, resp, getVars, adapterVars, ui, list, app>>

\* Mutant of SendAdapterFail: the catch rolls the user message back.
SendAdapterFailRollback(p) ==
    /\ send[p].pc = "awaiting"
    /\ send' = [send EXCEPT ![p] = [@ EXCEPT !.pc = "failed", !.error = "Adapter"]]
    /\ messages' = messages \ {send[p].userMessage}
    /\ UNCHANGED <<conversations, nextId, now, counterVars, resp, getVars, adapterVars, ui, list, app>>

\* sendMessage: llmAdapter.complete rejected; the catch logs and rethrows.
SendAdapterFail(p) ==
    /\ send[p].pc = "awaiting"
    /\ send' = [send EXCEPT ![p] = [@ EXCEPT !.pc = "failed", !.error = "Adapter"]]
    /\ UNCHANGED <<dbVars, counterVars, resp, getVars, adapterVars, ui, list, app>>

\* sendMessage: "Save assistant message".
SendCreateAssistant(p) ==
    /\ send[p].pc = "create_assistant"
    /\ IF send[p].conversationId \in ConvIds
       THEN \E t \in Times :
               LET m == InsertMessage(send[p].conversationId, "assistant",
                                      send[p].response, t)
               IN /\ messages' = messages \cup {m}
                  /\ send' = [send EXCEPT ![p] = [@ EXCEPT !.pc = "update",
                                                           !.assistantMessage = m]]
                  /\ now' = t
                  /\ nextId' = nextId + 1
       ELSE /\ send' = [send EXCEPT ![p] = [@ EXCEPT !.pc = "failed",
                                                     !.error = "ForeignKey"]]
            /\ UNCHANGED <<messages, now, nextId>>
    /\ UNCHANGED <<conversations, counterVars, resp, getVars, adapterVars, ui, list, app>>

\* sendMessage: "Update conversation lastMessageAt", then the return.
\* prisma.conversation.update throws P2025 when the row is gone.
SendUpdate(p) ==
    /\ send[p].pc = "update"
    /\ IF send[p].conversationId \in ConvIds
       THEN /\ conversations' =
                 {IF c.id = send[p].conversationId
                  THEN [c EXCEPT !.lastMessageAt = send[p].assistantMessage.createdAt]
                  ELSE c : c \in conversations}
            /\ send' = [send EXCEPT ![p] = [@ EXCEPT !.pc = "done"]]
       ELSE /\ send' = [send EXCEPT ![p] = [@ EXCEPT !.pc = "failed",
                                                     !.error = "RecordNotFound"]]
            /\ UNCHANGED conversations
    /\ UNCHANGED <<messages, nextId, now, counterVars, resp, getVars, adapterVars, ui, list, app>>

\* The positions of a sendMessage call whose request is being served.
InFlight == {"create_user", "awaiting", "create_assistant", "update"}

\* Mutant of ClientAbort: the abort undoes what the request has written.
ClientAbortRollback(p) ==
    /\ send[p].pc \in InFlight
    /\ ~send[p].aborted
    /\ send' = [send EXCEPT ![p] = [@ EXCEPT !.aborted = TRUE]]
    /\ messages' = messages \ {send[p].userMessage}
    /\ UNCHANGED <<conversations, nextId, now, counterVars, resp, getVars, adapterVars, ui, list, app>>

\* The client aborts its send request (handleCancel: the request's own
\* AbortController aborts its fetch) while the backend serves it. The route
\* handler does not listen for the disconnect: the sendMessage call
\* is left as it is.
ClientAbort(p) ==
    /\ send[p].pc \in InFlight
    /\ ~send[p].aborted
    /\ send' = [send EXCEPT ![p] = [@ EXCEPT !.aborted = TRUE]]
    /\ UNCHANGED <<dbVars, counterVars, resp, getVars, adapterVars, ui, list, app>>

\* The service process is stopped and started again (part_004: the
\* constructor runs again): the counter starts at 0, initCounter() is
\* started, and the calls in flight in the old process are gone.
Restart ==
    /\ epoch' = epoch + 1
    /\ conversationCounter' = 0
    /\ initPc' = "count"
    /\ initCount' = 0
    /\ creating' = <<>>
    /\ send' = [p \in Calls |->
                  IF send[p].pc \in {"idle", "done", "failed", "killed"}
                  THEN send[p] ELSE [send[p] EXCEPT !.pc = "killed"]]
    /\ UNCHANGED <<dbVars, resp, titles, ever, getVars, adapterVars, ui, list, app>>

\* ------------------------------------------------------------ adapters
Adapters == {"mock", "ollama"}

\* What a configuration says of maxRetries: <<>> when it leaves it out
\* (`maxRetries?: number`), <<n>> when it sets it.
Configured == {<<>>} \cup {<<n>> : n \in 0..MaxConfigured}

\* constructor: `this.maxRetries = config.maxRetries || 2`.
MaxRetriesOf(cfg) ==
    IF cfg = <<>> \/ cfg[1] = 0 THEN DefaultMaxRetries ELSE cfg[1]

\* What a configuration says of retryDelayMs: <<>> when it leaves it out
\* (`retryDelayMs?: number`), <<d>> when it sets it.
ConfiguredDelays == {<<>>} \cup {<<d>> : d \in {0, 1, 500}}

\* constructor: `this.retryDelayMs = config.retryDelayMs || 1000`.
RetryDelayMsOf(delayCfg) ==
    IF delayCfg = <<>> \/ delayCfg[1] = 0 THEN DefaultRetryDelayMs ELSE delayCfg[1]

\* HTTP statuses with `!response.ok`.
ErrorStatuses == {400, 404, 500, 502, 503}

\* The response bodies that parse as JSON: the fields they carry.
JsonBodies == SUBSET {"response", "completion"}

\* Response bodies that are no JSON, as the words they consist of.
MalformedBodies == {<<"<html>">>, <<"Error", "500">>}

\* The error fetch rejects with when controller.abort() fired.
AbortError == [name |-> "AbortError", message |-> <<"This operation was aborted">>]

\* The error fetch rejects with when the connection is refused.
FetchFailed == [name |-> "TypeError", message |-> <<"fetch failed">>]

\* `throw new Error(`Mock LLM returned ${response.status}`)` and
\* `throw new Error(`Ollama returned ${response.status}`)`.
StatusError(adapter, status) ==
    [name |-> "Error",
     message |-> <<IF adapter = "mock" THEN "Mock LLM returned" ELSE "Ollama returned",
                   ToString(status)>>]

\* `throw new Error("Ollama response missing completion field")`.
MissingField == [name |-> "Error",
                 message |-> <<"Ollama response missing completion field">>]

\* The SyntaxError response.json() rejects with: depending on the runtime
\* its message quotes the text that failed to parse or gives the position.
ParseErrors(text) ==
    {[name |-> "SyntaxError",
      message |-> <<"Unexpected token">> \o text \o <<"is not valid JSON">>],
     [name |-> "SyntaxError",
      message |-> <<"Unexpected token in JSON at position", "0">>]}

\* `error.name === "AbortError"`.
IsTimeout(error) == error.name = "AbortError"

\* `error.message?.includes("500")`.
Is500Error(error) == \E i \in 1..Len(error.message) : error.message[i] = "500"

\* `attempt < this.maxRetries`.
AttemptsLeft(attempt, maxRetries) == attempt < maxRetries

\* No backoff: every wait is retryDelayMs.
DelayFixed(retryDelayMs, attempt) ==
    retryDelayMs

\* `this.retryDelayMs * Math.pow(2, attempt)`.
Delay(retryDelayMs, attempt) ==
    retryDelayMs * 2 ^ attempt

\* The completion the adapter finds in a parsed body: mock reads
\* data.completion, ollama reads data.response || data.completion.
HasCompletion(adapter, body) ==
    IF adapter = "mock" THEN "completion" \in body ELSE body # {}

\* complete(input): the first fetchWithRetry, attempt = 0, up to its fetch.
Complete(adapter, cfg, delayCfg) ==
    /\ llm.pc \in {"idle", "returned", "thrown"}
    /\ llm' = [IdleLlm EXCEPT !.pc = "fetch", !.adapter = adapter, !.cfg = cfg,
                              !.maxRetries = MaxRetriesOf(cfg),
                              !.retryDelayMs = RetryDelayMsOf(delayCfg)]
    /\ log' = <<>>
    /\ UNCHANGED <<dbVars, counterVars, send, resp, getVars, ui, list, app>>

\* The catch block, entered with `error` by an attempt that ended in
\* `outcome`: the retry decision, then the timer of the delay or the rethrow.
Catch(outcome, status, error) ==
    /\ log' = Append(log, [attempt |-> llm.attempt, outcome |-> outcome,
                           status |-> status, body |-> {}, error |-> error])
    /\ IF (IsTimeout(error) \/ Is500Error(error))
            /\ AttemptsLeft(llm.attempt, llm.maxRetries)
       THEN llm' = [llm EXCEPT !.pc = "sleep", !.delays = Append(@, Delay(llm.retryDelayMs, llm.attempt))]
       ELSE llm' = [llm EXCEPT !.pc = "thrown", !.error = error]
    /\ UNCHANGED <<dbVars, counterVars, send, resp, getVars, ui, list, app>>

\* The timeout fires before the response headers arrive: fetch rejects.
FetchTimeout ==
    /\ llm.pc = "fetch"
    /\ Catch("timeout", 0, AbortError)

\* The connection is refused: fetch rejects.
FetchRefused ==
    /\ llm.pc = "fetch"
    /\ Catch("refused", 0, FetchFailed)

\* The backend answers with an error status: `if (!response.ok) throw`.
FetchStatus(status) ==
    /\ llm.pc = "fetch"
    /\ Catch("status", status, StatusError(llm.adapter, status))

\* The backend answers 200: clearTimeout, then response.json() is awaited.
FetchOk ==
    /\ llm.pc = "fetch"
    /\ llm' = [llm EXCEPT !.pc = "body"]
    /\ UNCHANGED <<dbVars, counterVars, send, resp, getVars, log, ui, list, app>>

\* response.json() resolved with the parsed body: the adapter returns the
\* completion; without one, mock returns {completion: undefined} and ollama
\* throws.
BodyParsed(body) ==
    /\ llm.pc = "body"
    /\ IF HasCompletion(llm.adapter, body) \/ llm.adapter = "mock"
       THEN /\ llm' = [llm EXCEPT !.pc = "returned",
                                  !.result = IF HasCompletion(llm.adapter, body)
                                             THEN "completion" ELSE "undefined"]
            /\ log' = Append(log, [attempt |-> llm.attempt,
                                   outcome |-> IF HasCompletion(llm.adapter, body)
                                               THEN "ok" ELSE "missing",
                                   status |-> 200, body |-> body, error |-> NoError])
            /\ UNCHANGED <<dbVars, counterVars, send, resp, getVars, ui, list, app>>
       ELSE Catch("missing", 200, MissingField)

\* response.json() rejected: the body is no JSON.
BodyMalformed(text) ==
    /\ llm.pc = "body"
    /\ \E error \in ParseErrors(text) : Catch("malformed", 200, error)

\* The caller of complete gives up on the call (its client went away) while
\* the call is in flight. complete(input: {messages}) takes no signal: the
\* running fetchWithRetry is not told.
CallerCancels ==
    /\ llm.pc \in {"fetch", "body", "sleep"}
    /\ llm.cancelledAt = <<>>
    /\ llm' = [llm EXCEPT !.cancelledAt = <<llm.attempt>>]
    /\ UNCHANGED <<dbVars, counterVars, send, resp, getVars, log, ui, list, app>>

\* The delay is over: `return this.fetchWithRetry(content, attempt + 1)`.
Retry ==
    /\ llm.pc = "sleep"
    /\ llm' = [llm EXCEPT !.pc = "fetch", !.attempt = @ + 1]
    /\ UNCHANGED <<dbVars, counterVars, send, resp, getVars, log, ui, list, app>>

\* ------------------------------------------------------------ boundary
\* The errors the service throws by itself: `new Error('Conversation not
\* found')`, Prisma's P2025 and P2003, and zod's error for an invalid body.
ServiceError(kind) ==
    IF kind = "ConversationNotFound"
    THEN [name |-> "Error", message |-> <<"Conversation not found">>]
    ELSE IF kind = "RecordNotFound"
    THEN [name |-> "PrismaClientKnownRequestError",
          message |-> <<"Invalid invocation:", "Record to delete does not exist.">>]
    ELSE IF kind = "ForeignKey"
    THEN [name |-> "PrismaClientKnownRequestError",
          message |-> <<"Invalid invocation:", "Foreign key constraint failed">>]
    ELSE [name |-> "ZodError", message |-> <<"String must contain at least 1 character(s)">>]

\* String.prototype.includes on a message.
Includes(message, part) == \E i \in 1..Len(message) : message[i] = part

\* errorHandler(err, req, res, next): the response it sends. retryAfterMs
\* is 0 where the body has none.
ErrorHandler(err) ==
    IF err.name = "ZodError"
    THEN [status |-> 400, error |-> "Validation error", retryAfterMs |-> 0]
    ELSE IF err.name = "AbortError" \/ Includes(err.message, "timeout")
    THEN [status |-> 504, error |-> "Upstream error/timeout", retryAfterMs |-> 1000]
    ELSE IF Includes(err.message, "500")
    THEN [status |-> 502, error |-> "Upstream error/timeout", retryAfterMs |-> 1000]
    ELSE [status |-> 500, error |-> "Internal server error", retryAfterMs |-> 0]

\* The errors a send request can end in: the service's, and what complete
\* throws.
SendErrors ==
    {ServiceError(kind) : kind \in {"ConversationNotFound", "ForeignKey", "Zod"}}
        \cup {AbortError, FetchFailed, MissingField}
        \cup {StatusError(adapter, status) : adapter \in Adapters, status \in ErrorStatuses}

\* The responses to POST /:id/messages: res.json(result), or errorHandler's.
SendResponses ==
    {[status |-> 200, error |-> "none", retryAfterMs |-> 0]}
        \cup {ErrorHandler(err) : err \in SendErrors}

\* ------------------------------------------------------------- browser
\* handleSend(content): `if (sending) return`, setSending(true), a new
\* AbortController, and handleSendMessage / api.sendMessage / fetchApi up to
\* the await of fetch: the request goes to currentConv.id. The ChatArea is
\* rendered while currentConv is set. One send is followed to its end before
\* the next.
HandleSend ==
    /\ app.currentConv # NoConv
    /\ ~ui.sending
    /\ ui.pc \in {"idle", "ended"}
    /\ ui' = [IdleUi EXCEPT !.pc = "fetch", !.sending = TRUE, !.ref = "set",
                            !.signal = "live", !.banner = ui.banner,
                            !.to = app.currentConv.id]
    /\ UNCHANGED <<dbVars, counterVars, send, resp, getVars, adapterVars, list, app>>

\* handleCancel(): with a controller in the ref, abort it, setSending(false),
\* clear the ref.
HandleCancel ==
    /\ ui.ref = "set"
    /\ ui' = [ui EXCEPT !.signal = "aborted", !.sending = FALSE, !.ref = "null",
                        !.cancelled = TRUE]
    /\ UNCHANGED <<dbVars, counterVars, send, resp, getVars, adapterVars, list, app>>

\* An error leaves fetchApi: handleSendMessage's catch rethrows all but an
\* AbortError, handleSend's catch hands all but an AbortError to onError
\* (setError), and its finally clears `sending` and the ref.
Settle(name, message) ==
    /\ ui' = [ui EXCEPT !.pc = "ended", !.sending = FALSE, !.ref = "null",
                        !.onError = IF name # "AbortError" THEN message ELSE @,
                        !.banner = IF name # "AbortError" THEN message ELSE @]
    /\ UNCHANGED <<dbVars, counterVars, send, resp, getVars, adapterVars, list, app>>

\* fetch rejects: with an AbortError once the signal is aborted, with a
\* TypeError when the network fails.
UiFetchRejects ==
    /\ ui.pc = "fetch"
    /\ IF ui.signal = "aborted"
       THEN Settle("AbortError", "The user aborted a request.")
       ELSE Settle("TypeError", "Failed to fetch")

\* fetch resolves with the backend's response; response.json() is awaited,
\* in the `!response.ok` branch or after it.
UiFetchResponds(response) ==
    /\ ui.pc = "fetch"
    /\ ui.signal = "live"
    /\ ui' = [ui EXCEPT !.pc = IF response.status = 200 THEN "okbody" ELSE "errbody",
                        !.response = <<response>>]
    /\ UNCHANGED <<dbVars, counterVars, send, resp, getVars, adapterVars, list, app>>

\* `!response.ok`: response.json() resolves with the body, or rejects (the
\* signal was aborted before the body was read) and `.catch` replaces it by
\* {error: 'Unknown error'}; then `throw new ApiError(status, error.error)`.
UiErrorBody ==
    /\ ui.pc = "errbody"
    /\ \/ Settle("Error", ui.response[1].error)
       \/ ui.signal = "aborted" /\ Settle("Error", "Unknown error")

\* The result of a send to conversation id: result.message and result.reply.
SendResult(id) ==
    <<[conversationId |-> id, role |-> "user"],
      [conversationId |-> id, role |-> "assistant"]>>

\* `setCurrentConv((prev) => { if (!prev) return null; return {...prev,
\* messages: [...prev.messages, result.message, result.reply]}; })`.
SetCurrentConv(prev, result) ==
    IF prev = NoConv THEN prev
    ELSE [prev EXCEPT !.messages = @ \o result]

\* response.ok: response.json() resolves and handleSendMessage goes on to
\* setCurrentConv and `await loadConversations()`, or it rejects with an
\* AbortError (the signal was aborted before the body was read).
UiOkBody ==
    /\ ui.pc = "okbody"
    /\ \/ /\ ui' = [ui EXCEPT !.pc = "reload"]
          /\ app' = [app EXCEPT
                        !.currentConv = SetCurrentConv(@, SendResult(ui.to))]
          /\ UNCHANGED <<dbVars, counterVars, send, resp, getVars, adapterVars, list>>
       \/ ui.signal = "aborted" /\ Settle("AbortError", "The user aborted a request.")

\* loadConversations() ends, having caught its own error if any (setError),
\* and handleSend's finally runs.
UiReload(failed) ==
    /\ ui.pc = "reload"
    /\ ui' = [ui EXCEPT !.pc = "ended", !.sending = FALSE, !.ref = "null",
                        !.banner = IF failed THEN "Failed to fetch" ELSE @]
    /\ UNCHANGED <<dbVars, counterVars, send, resp, getVars, adapterVars, list, app>>

\* The user dismisses the banner: setError(null).
DismissBanner ==
    /\ ui.banner # "none"
    /\ ui' = [ui EXCEPT !.banner = "none"]
    /\ UNCHANGED <<dbVars, counterVars, send, resp, getVars, adapterVars, list, app>>

\* ------------------------------------------------ delete with undo (App)
\* The conversations S as the backend lists them, newest first.
NewestFirst(S) ==
    CHOOSE s \in [1..Cardinality(S) -> S] :
        \A i, j \in 1..Cardinality(S) : i < j => s[i] > s[j]

\* `prev.filter((c) => c.id !== id)`.
Without(s, id) == SelectSeq(s, LAMBDA c : c # id)

\* The mount's loadConversations(): api.listConversations() resolved with
\* the conversations S, setConversations(convs).
LoadConversations(S) ==
    /\ ~app.loaded
    /\ app' = [app EXCEPT !.loaded = TRUE, !.conversations = NewestFirst(S)]
    /\ UNCHANGED <<dbVars, counterVars, send, resp, getVars, adapterVars, ui, list>>

\* handleDeleteConversation(id): the optimistic delete; the selection is
\* dropped when it is the deleted conversation (and the effect on
\* selectedConvId then runs setCurrentConv(null)); the timer the state
\* `undoTimeout` holds is cleared and a new one is armed.
HandleDeleteConversation(id) ==
    /\ \E i \in 1..Len(app.conversations) : app.conversations[i] = id
    /\ app' = [app EXCEPT
                  !.deletedConvId = id,
                  !.deletedConv = id,
                  !.conversations = Without(@, id),
                  !.selectedConvId = IF @ = id THEN 0 ELSE @,
                  !.currentConv = IF app.selectedConvId = id THEN NoConv ELSE @,
                  !.timers = {t \in @ : t.handle # app.undoTimeout}
                                \cup {[handle |-> app.nextTimer, id |-> id,
                                        deletedConv |-> app.deletedConv]},
                  !.undoTimeout = app.nextTimer,
                  !.nextTimer = @ + 1,
                  !.kept = [@ EXCEPT ![id] = @ + 1]]
    /\ UNCHANGED <<dbVars, counterVars, send, resp, getVars, adapterVars, ui, list>>

\* handleUndoDelete(): the Undo button of the banner, which shows while
\* deletedConvId is set.
HandleUndoDelete ==
    /\ app.deletedConvId # 0
    /\ app' = IF app.deletedConv # 0
              THEN [app EXCEPT
                      !.timers = {t \in @ : t.handle # app.undoTimeout},
                      !.conversations = <<app.deletedConv>> \o @,
                      !.deletedConvId = 0,
                      !.deletedConv = 0,
                      !.kept = [@ EXCEPT ![app.deletedConv] = @ - 1]]
              ELSE [app EXCEPT !.timers = {t \in @ : t.handle # app.undoTimeout}]
    /\ UNCHANGED <<dbVars, counterVars, send, resp, getVars, adapterVars, ui, list>>

\* The 5 seconds of timer t are over: performDelete(id) sends the DELETE
\* request, setDeletedConvId(null), setDeletedConv(null).
TimerFires(t) ==
    /\ t \in app.timers
    /\ app' = [app EXCEPT
                  !.timers = @ \ {t},
                  !.requests = @ \cup {t},
                  !.sent = [@ EXCEPT ![t.id] = @ + 1],
                  !.deletedConvId = 0,
                  !.deletedConv = 0]
    /\ UNCHANGED <<dbVars, counterVars, send, resp, getVars, adapterVars, ui, list>>

\* performDelete: api.deleteConversation(id) settles. On an error the catch
\* runs setError and restores the `deletedConv` its closure holds.
PerformDeleteSettles(r, failed) ==
    /\ r \in app.requests
    /\ app' = [app EXCEPT
                  !.requests = @ \ {r},
                  !.conversations = IF failed /\ r.deletedConv # 0
                                    THEN <<r.deletedConv>> \o @ ELSE @]
    /\ ui' = [ui EXCEPT !.banner = IF failed THEN "Failed to fetch" ELSE @]
    /\ UNCHANGED <<dbVars, counterVars, send, resp, getVars, adapterVars, list>>

\* ------------------------------------------------ conversation view (App)
\* The conversation id as GET /:id returns it to the client: its id and n
\* messages, all of them of conversation id (`where: {conversationId: id}`).
Detail(id, n) ==
    [id |-> id,
     messages |-> [i \in 1..n |-> [conversationId |-> id,
                                   role |-> IF i % 2 = 1 THEN "user" ELSE "assistant"]]]

\* The user clicks conversation id in the list: setSelectedConvId(id), and
\* the effect on selectedConvId calls loadConversation(id), up to its await.
SelectConversation(id) ==
    /\ \E i \in 1..Len(app.conversations) : app.conversations[i] = id
    /\ id # app.selectedConvId
    /\ app' = [app EXCEPT !.selectedConvId = id, !.loads = @ \cup {id}]
    /\ UNCHANGED <<dbVars, counterVars, send, resp, getVars, adapterVars, ui, list>>

\* loadConversation(id): api.getConversation(id) resolved with the
\* conversation and its n messages, setCurrentConv(conv).
LoadConversationResolves(id, n) ==
    /\ id \in app.loads
    /\ app' = [app EXCEPT !.loads = @ \ {id}, !.currentConv = Detail(id, n)]
    /\ UNCHANGED <<dbVars, counterVars, send, resp, getVars, adapterVars, ui, list>>

\* loadConversation(id): api.getConversation(id) rejected, setError.
LoadConversationFails(id) ==
    /\ id \in app.loads
    /\ app' = [app EXCEPT !.loads = @ \ {id}]
    /\ ui' = [ui EXCEPT !.banner = "Failed to fetch"]
    /\ UNCHANGED <<dbVars, counterVars, send, resp, getVars, adapterVars, list>>

\* ------------------------------------------------------ getConversation
\* getConversation(id, messagesCursor, limit): prisma.conversation.findUnique
\* and the `if (!conversation) throw`. cursor = 0 is "no messagesCursor".
GetFind(id, cursor, limit) ==
    /\ get.pc \in {"idle", "done", "failed"}
    /\ IF id \in ConvIds
       THEN /\ get' = [IdleGet EXCEPT !.pc = "query", !.id = id, !.cursor = cursor,
                                      !.limit = limit]
            /\ UNCHANGED resp
       ELSE /\ get' = [IdleGet EXCEPT !.pc = "failed"]
            /\ resp' = [op |-> "get", id |-> id, error |-> "ConversationNotFound"]
    /\ UNCHANGED <<dbVars, counterVars, send, page, adapterVars, ui, list, app>>

\* The rows `where` selects: conversationId = id, and id <= messagesCursor
\* when a cursor was given.
WhereCursor(id, cursor) ==
    {m \in MessagesOf(id) : cursor = 0 \/ m.id <= cursor}

\* The value the call returns, and the client's record of it.
Return(g, prevCursor) ==
    [cursor |-> g.cursor, messages |-> Reverse(g.pageMessages),
     nextCursor |-> g.nextCursor, prevCursor |-> prevCursor]

\* getConversation: the first prisma.message.findMany (limit + 1 rows,
\* newest first), hasMore, pageMessages and nextCursor. Without a cursor the
\* call returns here (prevCursor stays null).
GetQuery ==
    /\ get.pc = "query"
    /\ \E rows \in OrderByCreatedAtDesc(WhereCursor(get.id, get.cursor)) :
        LET found == Take(rows, get.limit + 1)
            hasMore == Len(found) > get.limit
            pageMessages == IF hasMore THEN Take(found, get.limit) ELSE found
            g == [get EXCEPT !.pageMessages = pageMessages,
                             !.nextCursor = IF hasMore THEN found[get.limit + 1].id ELSE 0,
                             !.existing = {m.id : m \in MessagesOf(get.id)}]
        IN IF get.cursor # 0
           THEN /\ get' = [g EXCEPT !.pc = "prev"]
                /\ UNCHANGED <<page, walk>>
           ELSE /\ get' = [g EXCEPT !.pc = "done"]
                /\ page' = Return(g, 0)
                /\ walk' = [via |-> "first",
                            snapshot |-> {m.id : m \in MessagesOf(get.id)},
                            seen |-> Return(g, 0).messages,
                            from |-> NoPage]
    /\ UNCHANGED <<dbVars, counterVars, send, resp, adapterVars, ui, list, app>>

\* The second findMany: the rows with id > the id of the last element of
\* pageMessages (the oldest of the page), oldest first, take 1. With an empty
\* page the id filter is `gt: undefined`, which Prisma drops.
NewerThanOldest(g) ==
    {m \in MessagesOf(g.id) :
        g.pageMessages = <<>> \/ m.id > g.pageMessages[Len(g.pageMessages)].id}

\* getConversation with a cursor: the prevCursor query and the return.
GetPrev ==
    /\ get.pc = "prev"
    /\ \E rows \in OrderByCreatedAtAsc(NewerThanOldest(get)) :
        LET olderMessages == Take(rows, 1)
            prevCursor == IF olderMessages = <<>> THEN 0 ELSE olderMessages[1].id
        IN /\ page' = Return(get, prevCursor)
           /\ walk' = [walk EXCEPT !.seen = @ \o Return(get, prevCursor).messages,
                                   !.from = page]
    /\ get' = [get EXCEPT !.pc = "done"]
    /\ UNCHANGED <<dbVars, counterVars, send, resp, adapterVars, ui, list, app>>

\* The client's next request, with the cursor the last page gave it.
FollowNext ==
    /\ get.pc = "done"
    /\ page.nextCursor # 0
    /\ GetFind(get.id, page.nextCursor, get.limit)
    /\ walk' = [walk EXCEPT !.via = IF @ \in {"first", "next"} THEN "next" ELSE "mixed"]

FollowPrev ==
    /\ get.pc = "done"
    /\ page.prevCursor # 0
    /\ GetFind(get.id, page.prevCursor, get.limit)
    /\ walk' = [walk EXCEPT !.via = "prev"]

\* A request that starts a walk or stands alone: without a cursor, or with
\* a cursor the client kept from an earlier response.
GetFirst(id, limit) ==
    /\ GetFind(id, 0, limit)
    /\ walk' = NoWalk

GetAt(id, cursor, limit) ==
    /\ GetFind(id, cursor, limit)
    /\ walk' = [NoWalk EXCEPT !.via = "cursor"]

\* The cursors a client may send: the id of a message of the conversation,
\* or an id that names none (kept from another conversation or from a row
\* that is gone; ids of all rows come from one sequence).
Cursors == 1..(nextId - 1)

\* Conversation ids a caller may name: the id of every conversation ever
\* created (existing or deleted), and 0 for an id that never named one.
NamedIds == {e.id : e \in ever} \cup {0}

\* ---------------------------------------------------- listConversations
\* `include: {messages: {orderBy: {createdAt: 'desc'}, take: 1}}` and
\* `conv.messages[0]?.createdAt.toISOString() || null`: the createdAt of the
\* conversation's first message in that order, 0 (null) without messages.
LastMessageAt(id) ==
    IF MessagesOf(id) = {}
    THEN {0}
    ELSE {Take(found, 1)[1].createdAt : found \in OrderByCreatedAtDesc(MessagesOf(id))}

\* The row listConversations returns for conversation c.
Listed(c, lastMessageAt) ==
    [id |-> c.id, num |-> c.num, createdAt |-> c.createdAt, lastMessageAt |-> lastMessageAt]

\* Mutant of ListConversations: the stored lastMessageAt column is reported.
ListConversationsStored ==
    /\ \E found \in OrderByCreatedAtDesc(conversations) :
          list' = [calls |-> 1,
                   rows |-> [i \in 1..Len(found) |-> Listed(found[i], found[i].lastMessageAt)]]
    /\ UNCHANGED <<dbVars, counterVars, send, resp, getVars, adapterVars, ui, app>>

\* listConversations(): prisma.conversation.findMany, newest createdAt
\* first, each conversation with its newest message, and the map.
ListConversations ==
    /\ \E found \in OrderByCreatedAtDesc(conversations) :
       \E at \in [1..Len(found) -> 0..MaxTime] :
          /\ \A i \in 1..Len(found) : at[i] \in LastMessageAt(found[i].id)
          /\ list' = [calls |-> 1,
                      rows |-> [i \in 1..Len(found) |-> Listed(found[i], at[i])]]
    /\ UNCHANGED <<dbVars, counterVars, send, resp, getVars, adapterVars, ui, app>>

\* The listing has been sent (`res.json(conversations)`): nothing keeps it.
ListRendered ==
    /\ list # NoList
    /\ list' = NoList
    /\ UNCHANGED <<dbVars, counterVars, send, resp, getVars, adapterVars, ui, app>>

\* ------------------------------------------------------- specifications
\* Spec: the service after startup (initCounter() has finished on an empty
\* database), with createConversation, deleteConversation and sendMessage
\* calls interleaved at their awaits (requests that name an absent id, other
\* than a sendMessage, are SpecAbsent's). Calls are used in order of their
\* number (they are interchangeable); one createConversation runs at a time
\* (overlapping ones are SpecNum's); MaxRows bounds the rows inserted.
InitServing ==
    /\ conversations = {}
    /\ messages = {}
    /\ nextId = 1
    /\ now = 1
    /\ conversationCounter = 0
    /\ initPc = "done"
    /\ initCount = 0
    /\ creating = <<>>
    /\ send = [p \in Calls |-> IdleCall]
    /\ resp = [op |-> "none", id |-> 0, error |-> "none"]
    /\ epoch = 0
    /\ titles = <<>>
    /\ ever = {}
    /\ get = IdleGet
    /\ page = NoPage
    /\ walk = NoWalk
    /\ llm = IdleLlm
    /\ log = <<>>
    /\ ui = IdleUi
    /\ list = NoList
    /\ app = IdleApp

HasRoom == nextId <= MaxRows

InOrder(p) == \A q \in Calls : q < p => send[q].pc # "idle"

Next ==
    \/ (Len(titles) < MaxConvs /\ creating = <<>> /\ CreateConversationBegin)
    \/ CreateConversationInsert(1)
    \/ \E id \in ConvIds : DeleteConversation(id)
    \/ \E p \in Calls, id \in NamedIds : InOrder(p) /\ HasRoom /\ SendFind(p, id, "Hello")
    \/ \E p \in Calls : HasRoom /\ SendCreateUser(p)
    \/ \E p \in Calls : SendAdapterOk(p, "Hi there")
    \/ \E p \in Calls : SendAdapterFail(p)
    \/ \E p \in Calls : HasRoom /\ SendCreateAssistant(p)
    \/ \E p \in Calls : SendUpdate(p)

Spec == InitServing /\ [][Next]_vars

\* SpecAbsent: requests that name an id which is not a stored conversation
\* (never created, or deleted), among createConversation and
\* deleteConversation calls.
NextAbsent ==
    \/ (Len(titles) < NumMaxConvs /\ creating = <<>> /\ CreateConversationBegin)
    \/ CreateConversationInsert(1)
    \/ \E id \in NamedIds : DeleteConversation(id)
    \/ \E p \in Calls, id \in NamedIds \ ConvIds : InOrder(p) /\ SendFind(p, id, "Hello")
    \/ \E id \in NamedIds \ ConvIds : GetFirst(id, MaxLimit)

SpecAbsent == InitServing /\ [][NextAbsent]_vars

\* SpecScenario: a fresh service on which a conversation is created,
\* messages are sent to it and it is read back without a cursor and with
\* the default limit.
NextScenario ==
    \/ (Len(titles) < MaxConvs /\ creating = <<>> /\ CreateConversationBegin)
    \/ CreateConversationInsert(1)
    \/ \E p \in Calls, id \in ConvIds, content \in Contents :
          InOrder(p) /\ SendFind(p, id, content)
    \/ \E p \in Calls : SendCreateUser(p)
    \/ \E p \in Calls, completion \in Completions : SendAdapterOk(p, completion)
    \/ \E p \in Calls : SendAdapterFail(p)
    \/ \E p \in Calls : SendCreateAssistant(p)
    \/ \E p \in Calls : SendUpdate(p)
    \/ \E id \in ConvIds : GetFirst(id, DefaultLimit)
    \/ GetQuery

SpecScenario == InitServing /\ [][NextScenario]_vars

\* No sendMessage call is being served.
NoneInFlight == \A q \in Calls : send[q].pc \notin InFlight

\* SpecList: conversations are created, messages sent to them (one
\* sendMessage at a time) and conversations deleted (between the sends),
\* while a client lists the conversations at any moment.
NextList ==
    \/ (Len(titles) < NumMaxConvs /\ creating = <<>> /\ CreateConversationBegin)
    \/ (nextId <= PageMaxRows /\ CreateConversationInsert(1))
    \/ \E id \in ConvIds : NoneInFlight /\ DeleteConversation(id)
    \/ \E p \in Calls, id \in ConvIds :
          InOrder(p) /\ NoneInFlight /\ nextId <= PageMaxRows /\ SendFind(p, id, "Hello")
    \/ \E p \in Calls : nextId <= PageMaxRows /\ SendCreateUser(p)
    \/ \E p \in Calls : SendAdapterOk(p, "Hi there")
    \/ \E p \in Calls : SendAdapterFail(p)
    \/ \E p \in Calls : nextId <= PageMaxRows /\ SendCreateAssistant(p)
    \/ \E p \in Calls : SendUpdate(p)
    \/ (list = NoList /\ ListConversations)
    \/ ListRendered

SpecList == InitServing /\ [][NextList]_vars

\* SpecNum: title numbering from process start, across restarts.
NextNum ==
    \/ InitCounterCount
    \/ InitCounterAssign
    \/ (Len(titles) < NumMaxConvs /\ Len(creating) < NumMaxPending /\ CreateConversationBegin)
    \/ \E i \in 1..NumMaxPending : CreateConversationInsert(i)
    \/ \E id \in NamedIds : DeleteConversation(id)
    \/ (epoch < MaxRestarts /\ Restart)

SpecNum == Init /\ [][NextNum]_vars

\* SpecSeeded: as SpecNum, with createConversation called only once the
\* process's initCounter() has stored its count (the requests of a process
\* that has finished starting up).
NextSeeded ==
    \/ InitCounterCount
    \/ InitCounterAssign
    \/ (/\ initPc = "done"
        /\ Len(titles) < NumMaxConvs
        /\ Len(creating) < NumMaxPending
        /\ CreateConversationBegin)
    \/ \E i \in 1..NumMaxPending : CreateConversationInsert(i)
    \/ \E id \in NamedIds : DeleteConversation(id)
    \/ (epoch < MaxRestarts /\ Restart)

SpecSeeded == Init /\ [][NextSeeded]_vars

\* SpecRetry: complete() calls of either adapter, one after the other,
\* under every configuration of maxRetries and every sequence of backend
\* answers.
NextRetry ==
    \/ \E adapter \in Adapters, cfg \in Configured, delayCfg \in ConfiguredDelays :
          Complete(adapter, cfg, delayCfg)
    \/ FetchTimeout
    \/ FetchRefused
    \/ \E status \in ErrorStatuses : FetchStatus(status)
    \/ FetchOk
    \/ \E body \in JsonBodies : BodyParsed(body)
    \/ \E text \in MalformedBodies : BodyMalformed(text)
    \/ CallerCancels
    \/ Retry

SpecRetry == Init /\ [][NextRetry]_vars

\* SpecRetryFair: SpecRetry with the runtime's timers. An armed timer fires:
\* the timeout of an attempt while its fetch is pending (setTimeout of
\* controller.abort(), cleared once fetch has resolved), and the delay before
\* a retry. The backend owes no answer: nothing is assumed of its steps.
SpecRetryFair == SpecRetry /\ WF_vars(FetchTimeout) /\ WF_vars(Retry)

\* SpecPage: one conversation exists (the state after one createConversation
\* on a fresh service); sendMessage calls append to it while a client pages
\* through it: one walk in a behaviour, started at any moment.
InitPage ==
    /\ conversations = {[id |-> 1, num |-> 1, createdAt |-> 1, lastMessageAt |-> 0]}
    /\ messages = {}
    /\ nextId = 2
    /\ now = 1
    /\ conversationCounter = 1
    /\ initPc = "done"
    /\ initCount = 0
    /\ creating = <<>>
    /\ send = [p \in Calls |-> IdleCall]
    /\ resp = [op |-> "none", id |-> 0, error |-> "none"]
    /\ epoch = 0
    /\ titles = <<[epoch |-> 0, num |-> 1]>>
    /\ ever = {[id |-> 1, num |-> 1, epoch |-> 0]}
    /\ get = IdleGet
    /\ page = NoPage
    /\ walk = NoWalk
    /\ llm = IdleLlm
    /\ log = <<>>
    /\ ui = IdleUi
    /\ list = NoList
    /\ app = IdleApp

NextPage ==
    \/ \E p \in Calls, id \in ConvIds : InOrder(p) /\ SendFind(p, id, "Hello")
    \/ \E p \in Calls : nextId <= PageMaxRows /\ SendCreateUser(p)
    \/ \E p \in Calls : SendAdapterOk(p, "Hi there")
    \/ \E p \in Calls : SendAdapterFail(p)
    \/ \E p \in Calls : nextId <= PageMaxRows /\ SendCreateAssistant(p)
    \/ \E p \in Calls : SendUpdate(p)
    \/ \E id \in ConvIds, limit \in 1..MaxLimit : get.pc = "idle" /\ GetFirst(id, limit)
    \/ \E id \in ConvIds, limit \in 1..MaxLimit :
          \E cursor \in Cursors : get.pc = "idle" /\ GetAt(id, cursor, limit)
    \/ GetQuery
    \/ GetPrev
    \/ (Len(walk.seen) < MaxSeen /\ FollowNext)
    \/ (Len(walk.seen) < MaxSeen /\ FollowPrev)

SpecPage == InitPage /\ [][NextPage]_vars

\* SpecTurns: one conversation exists; sendMessage calls on it overlap in
\* every way their awaits allow.
NextTurns ==
    \/ \E p \in Calls, id \in ConvIds : InOrder(p) /\ SendFind(p, id, "Hello")
    \/ \E p \in Calls : nextId <= TurnMaxRows /\ SendCreateUser(p)
    \/ \E p \in Calls : SendAdapterOk(p, "Hi there")
    \/ \E p \in Calls : SendAdapterFail(p)
    \/ \E p \in Calls : nextId <= TurnMaxRows /\ SendCreateAssistant(p)
    \/ \E p \in Calls : SendUpdate(p)

SpecTurns == InitPage /\ [][NextTurns]_vars

\* SpecUndo: the App of one browser client: the conversations are loaded,
\* the user deletes conversations and clicks Undo, the timers fire.
NextUndo ==
    \/ \E S \in SUBSET ListedIds : LoadConversations(S)
    \/ \E id \in ListedIds : app.nextTimer <= MaxDeletes /\ HandleDeleteConversation(id)
    \/ HandleUndoDelete
    \/ \E t \in app.timers : TimerFires(t)
    \/ \E r \in app.requests, failed \in BOOLEAN : PerformDeleteSettles(r, failed)

SpecUndo == Init /\ [][NextUndo]_vars

\* SpecUndoFair: SpecUndo with the browser's timers: an armed setTimeout
\* that is not cleared fires when its 5 seconds are over.
SpecUndoFair == SpecUndo /\ WF_vars(\E t \in app.timers : TimerFires(t))

\* SpecView: the App and its ChatArea in one browser client: the list is
\* loaded, the user selects conversations and sends messages, and the
\* requests settle in any order.
NextView ==
    \/ \E S \in SUBSET ListedIds : LoadConversations(S)
    \/ \E id \in ListedIds : SelectConversation(id)
    \/ \E id \in ListedIds, n \in {0, 2} : LoadConversationResolves(id, n)
    \/ \E id \in ListedIds : LoadConversationFails(id)
    \/ (Len(app.currentConv.messages) + 2 <= MaxShown /\ HandleSend)
    \/ HandleCancel
    \/ UiFetchRejects
    \/ \E response \in SendResponses : UiFetchResponds(response)
    \/ UiErrorBody
    \/ UiOkBody
    \/ \E failed \in BOOLEAN : UiReload(failed)
    \/ DismissBanner

SpecView == Init /\ [][NextView]_vars

\* SpecUi: the ChatArea of one browser client: sends, one after the other,
\* each of which the user may cancel at any moment while it is in flight.
\* The state in which the ChatArea is first shown: one conversation exists
\* (as in InitPage), the list is loaded, the user has selected the
\* conversation and it has been loaded, empty.
InitUi ==
    /\ conversations = {[id |-> 1, num |-> 1, createdAt |-> 1, lastMessageAt |-> 0]}
    /\ messages = {}
    /\ nextId = 2
    /\ now = 1
    /\ conversationCounter = 1
    /\ initPc = "done"
    /\ initCount = 0
    /\ creating = <<>>
    /\ send = [p \in Calls |-> IdleCall]
    /\ resp = [op |-> "none", id |-> 0, error |-> "none"]
    /\ epoch = 0
    /\ titles = <<[epoch |-> 0, num |-> 1]>>
    /\ ever = {[id |-> 1, num |-> 1, epoch |-> 0]}
    /\ get = IdleGet
    /\ page = NoPage
    /\ walk = NoWalk
    /\ llm = IdleLlm
    /\ log = <<>>
    /\ ui = IdleUi
    /\ list = NoList
    /\ app = [IdleApp EXCEPT !.loaded = TRUE, !.conversations = <<1>>,
                            !.selectedConvId = 1, !.currentConv = Detail(1, 0)]

NextUi ==
    \/ (Len(app.currentConv.messages) + 2 <= MaxShown /\ HandleSend)
    \/ HandleCancel
    \/ UiFetchRejects
    \/ \E response \in SendResponses : UiFetchResponds(response)
    \/ UiErrorBody
    \/ UiOkBody
    \/ \E failed \in BOOLEAN : UiReload(failed)
    \/ DismissBanner

SpecUi == InitUi /\ [][NextUi]_vars

\* SpecCancel: one conversation exists; sendMessage requests on it, which
\* their clients may abort at any moment, and deleteConversation.
NextCancel ==
    \/ \E p \in Calls, id \in NamedIds : InOrder(p) /\ SendFind(p, id, "Hello")
    \/ \E p \in Calls : nextId <= PageMaxRows /\ SendCreateUser(p)
    \/ \E p \in Calls : SendAdapterOk(p, "Hi there")
    \/ \E p \in Calls : SendAdapterFail(p)
    \/ \E p \in Calls : nextId <= PageMaxRows /\ SendCreateAssistant(p)
    \/ \E p \in Calls : SendUpdate(p)
    \/ \E p \in Calls : ClientAbort(p)
    \/ \E id \in ConvIds : DeleteConversation(id)

SpecCancel == InitPage /\ [][NextCancel]_vars

\* ------------------------------------------------------------- claims
Ids(s) == [i \in 1..Len(s) |-> s[i].id]

NoDuplicates(s) == \A i, j \in 1..Len(s) : i # j => s[i] # s[j]

Range(s) == {s[i] : i \in 1..Len(s)}

\* The newest message of a page (pages are presented oldest first).
NewestId(pg) == pg.messages[Len(pg.messages)].id

WalkEnded == get.pc = "done" /\ walk.via \in {"first", "next"} /\ page.nextCursor = 0

\* C3 (as claimed): a walk from the cursorless page along nextCursor returns
\* no message twice and only messages that existed at the first fetch, every
\* page is strictly older than the one before (the collected ids, newest
\* first, strictly decrease), and when nextCursor is null every message
\* that existed at the first fetch has been returned.
C3_WalkYieldsSnapshotOnce ==
    walk.via \in {"first", "next"} =>
        /\ NoDuplicates(Ids(walk.seen))
        /\ Range(Ids(walk.seen)) \subseteq walk.snapshot
        /\ \A e \in Range(Ids(page.messages)), f \in Range(Ids(walk.from.messages)) :
               walk.via = "next" /\ get.pc = "done" => e < f
        /\ WalkEnded => Range(Ids(walk.seen)) = walk.snapshot

\* C4 (as claimed): the page fetched with prevCursor has a newest message
\* strictly newer than the newest message of the page that gave the cursor.
C4_PrevCursorMakesProgress ==
    (walk.via = "prev" /\ get.pc = "done") =>
        /\ page.messages # <<>>
        /\ walk.from.messages # <<>> => NewestId(page) > NewestId(walk.from)

\* ------------------------------------------------------------- C1
\* What C1 says of a call p whose adapter call failed: its user message is
\* stored, it created no assistant message, and the conversation's
\* lastMessageAt is the one the call read when it started.
FailedAsClaimed(p) ==
    /\ send[p].userMessage \in messages
    /\ send[p].assistantMessage = NoMsg
    /\ send[p].conversationId \in ConvIds
    /\ ConvRow(send[p].conversationId).lastMessageAt = send[p].lastAtBefore

\* C1 (as claimed): at the moment a sendMessage fails because the adapter
\* call failed, its user message is still stored, no assistant message was
\* created by the call, and lastMessageAt equals its value before the call.
C1_AsClaimed ==
    [][\A p \in Calls :
          (send[p].pc = "awaiting" /\ send'[p].error = "Adapter") => FailedAsClaimed(p)']_vars

\* Another sendMessage on the same conversation that ran to its end and
\* whose reply's timestamp is the stored lastMessageAt.
SetByOther(p) ==
    \E q \in Calls \ {p} :
        /\ send[q].pc = "done"
        /\ send[q].conversationId = send[p].conversationId
        /\ ConvRow(send[p].conversationId).lastMessageAt = send[q].assistantMessage.createdAt

\* The state of a call p that failed on its adapter call: it created no
\* assistant message; if its conversation still exists, the user message is
\* stored, and lastMessageAt is the value before the call unless another
\* sendMessage on the conversation has set it since.
FailedKeepsUserMessage(p) ==
    /\ send[p].assistantMessage = NoMsg
    /\ send[p].userMessage # NoMsg
    /\ send[p].conversationId \in ConvIds =>
          /\ send[p].userMessage \in messages
          /\ \/ ConvRow(send[p].conversationId).lastMessageAt = send[p].lastAtBefore
             \/ SetByOther(p)

\* C1 (amended): the step at which a sendMessage fails on its adapter call
\* writes nothing (no rollback of the user message, no assistant message,
\* lastMessageAt untouched), and from then on the call's user message stays
\* stored as long as its conversation exists, the call has no assistant
\* message, and lastMessageAt differs from its value before the call only
\* when another sendMessage on the same conversation has set it.
C1_FailedSendKeepsUserMessage ==
    [][\A p \in Calls :
          /\ (send[p].pc = "awaiting" /\ send'[p].error = "Adapter") =>
                UNCHANGED <<conversations, messages>>
          /\ send'[p].error = "Adapter" => FailedKeepsUserMessage(p)']_vars

\* A call failed on its adapter call; its user message is stored and its
\* conversation's lastMessageAt is the one it read.
C1_Witness ==
    \E p \in Calls :
        /\ send[p].error = "Adapter"
        /\ send[p].userMessage \in messages
        /\ send[p].conversationId \in ConvIds
        /\ ConvRow(send[p].conversationId).lastMessageAt = send[p].lastAtBefore

\* ------------------------------------------------------------- C2
\* C2: a call that has invoked llmAdapter.complete had saved its user message
\* before; an assistant message exists only for a call whose complete
\* returned a completion, and it was created after the user message (later
\* id, timestamp not earlier); every stored assistant message is the reply
\* of such a call.
C2_UserBeforeAdapterBeforeAssistant ==
    /\ \A p \in Calls :
          /\ send[p].invoked => send[p].userMessage # NoMsg
          /\ send[p].response # "none" => send[p].invoked
          /\ send[p].assistantMessage # NoMsg =>
                /\ send[p].response \in Completions
                /\ send[p].assistantMessage.id > send[p].userMessage.id
                /\ send[p].assistantMessage.createdAt >= send[p].userMessage.createdAt
          /\ send[p].pc = "done" => send[p].assistantMessage # NoMsg
    /\ \A m \in messages : m.role = "assistant" =>
          \E p \in Calls : send[p].assistantMessage = m /\ send[p].response \in Completions

\* A call returned both messages, the reply stamped later than the user
\* message and stored, and another call failed.
C2_Witness ==
    \E p, q \in Calls :
        /\ send[p].pc = "done"
        /\ send[p].assistantMessage \in messages
        /\ send[p].assistantMessage.createdAt > send[p].userMessage.createdAt
        /\ send[q].pc = "failed"

\* ------------------------------------------------------------- C5
\* C5: every stored message references a conversation that exists.
C5_NoOrphanMessages ==
    \A m \in messages : m.conversationId \in ConvIds

\* A call that had saved its user message and got a completion resumed after
\* its conversation was deleted: the insert was refused, nothing is left.
C5_Witness ==
    \E p \in Calls :
        /\ send[p].error = "ForeignKey"
        /\ send[p].response \in Completions
        /\ send[p].conversationId \notin ConvIds
        /\ send[p].userMessage \notin messages

\* ------------------------------------------------------------- C6
\* C6: a deleteConversation, getConversation or sendMessage naming an id that
\* is not a stored conversation fails with a not-found error and changes no
\* table; the sendMessage saved no user message and did not invoke the
\* adapter, then or later.
C6_AbsentIdFailsNotFound ==
    [][/\ \A p \in Calls :
            (send[p].pc = "idle" /\ send'[p].pc # "idle"
               /\ send'[p].conversationId \notin ConvIds) =>
                /\ send'[p].pc = "failed"
                /\ send'[p].error \in NotFoundErrors
                /\ UNCHANGED <<conversations, messages>>
       /\ \A p \in Calls :
            send[p].error = "ConversationNotFound" =>
                /\ send'[p] = send[p]
                /\ send[p].userMessage = NoMsg
                /\ ~send[p].invoked
       /\ (resp' # resp /\ resp'.id \notin ConvIds) =>
                /\ resp'.error \in NotFoundErrors
                /\ UNCHANGED <<conversations, messages>>
       /\ (resp' # resp /\ resp'.op = "get") =>
                /\ resp'.id \notin ConvIds
                /\ get'.pc = "failed"
                /\ UNCHANGED page]_vars

\* A conversation was deleted; a second delete of it failed with a
\* not-found error, and a sendMessage naming it failed with not-found.
C6_Witness ==
    /\ resp = [op |-> "delete", id |-> resp.id, error |-> "RecordNotFound"]
    /\ resp.id \in {e.id : e \in ever}
    /\ \E p \in Calls :
          /\ send[p].error = "ConversationNotFound"
          /\ send[p].conversationId = resp.id

\* ------------------------------------------------------------- C7
\* C7 (as claimed): within one process (one epoch), every createConversation
\* call is given a number strictly greater than the number given to every
\* call made before it.
C7_NumbersIncreaseWithinProcess ==
    \A i, j \in 1..Len(titles) :
        (i < j /\ titles[i].epoch = titles[j].epoch) => titles[i].num < titles[j].num

\* ------------------------------------------------------------- C8
\* C8 (as claimed): a conversation inserted after a restart carries a number
\* greater than the number of every conversation inserted before the
\* restart, deleted since or not.
C8_NumbersIncreaseAcrossRestarts ==
    \A e1, e2 \in ever : e1.epoch < e2.epoch => e1.num < e2.num

\* ------------------------------------------------------------- C9
TimedOut(e) == e.outcome = "timeout"

ServerError(e) == e.outcome = "status" /\ e.status \in 500..599

\* After attempt log[i] a further attempt was started or its delay is
\* running.
FurtherAttempt(i) == llm.attempt > log[i].attempt \/ llm.pc = "sleep"

\* C9 (as claimed): an attempt that ended in a timeout or a 5xx response,
\* with fewer than maxRetries retries made so far, is followed by a further
\* attempt; with maxRetries = 2, two server errors and then a success make
\* complete return the completion.
C9_TimeoutOr5xxIsRetried ==
    /\ \A i \in 1..Len(log) :
          ((TimedOut(log[i]) \/ ServerError(log[i])) /\ log[i].attempt < llm.maxRetries)
              => FurtherAttempt(i)
    /\ (llm.maxRetries = 2 /\ Len(log) = 3 /\ ServerError(log[1]) /\ ServerError(log[2])
          /\ log[3].outcome = "ok")
              => (llm.pc = "returned" /\ llm.result = "completion")

\* ------------------------------------------------------------- C10
\* An attempt that failed, with an error that is neither a timeout nor a
\* server-error response.
OtherError(e) == e.error # NoError /\ ~TimedOut(e) /\ ~ServerError(e)

\* C10 (as claimed): an attempt that failed with an error other than a
\* timeout or a server-error response is the last attempt: complete has
\* thrown that error, no delay was started for it.
C10_OtherErrorsAreNotRetried ==
    \A i \in 1..Len(log) :
        OtherError(log[i]) =>
            /\ i = Len(log)
            /\ llm.pc = "thrown"
            /\ llm.error = log[i].error
            /\ Len(llm.delays) = log[i].attempt

\* ------------------------------------------------------------- C11
\* C11 (as claimed): a call configured with maxRetries = n makes at most
\* n + 1 attempts, n = 0 included; a call whose configuration leaves
\* maxRetries out makes at most DefaultMaxRetries + 1 = 3.
C11_AtMostConfiguredAttempts ==
    llm.pc # "idle" =>
        llm.attempt + 1 <= (IF llm.cfg = <<>> THEN DefaultMaxRetries ELSE llm.cfg[1]) + 1

\* ------------------------------------------------------------- C12
\* C12 (as claimed): once the caller has cancelled a call in flight, no
\* further attempt is started, the call does not return a completion, and
\* the error it throws is not the timeout's.
C12_CancelledCallStops ==
    llm.cancelledAt # <<>> =>
        /\ llm.attempt = llm.cancelledAt[1]
        /\ llm.pc # "returned"
        /\ llm.pc = "thrown" => ~IsTimeout(llm.error)

\* ------------------------------------------------------------- C13
\* C13: the step at which a client aborts its send request changes no
\* stored row and no other call, and no later step of the aborted call
\* removes a stored message (its own user message included).
C13_AbortTouchesOnlyItsRequest ==
    [][\A p \in Calls :
          /\ (~send[p].aborted /\ send'[p].aborted) =>
                /\ UNCHANGED <<conversations, messages>>
                /\ \A q \in Calls \ {p} : send'[q] = send[q]
          /\ (send[p].aborted /\ send'[p] # send[p]) => messages \subseteq messages']_vars

\* A request was aborted after its user message was saved; the message is
\* stored, the call has ended, and another request is still being served.
C13_Witness ==
    \E p, q \in Calls :
        /\ send[p].aborted
        /\ send[p].pc \in {"done", "failed"}
        /\ send[p].userMessage \in messages
        /\ send[q].pc = "awaiting"
        /\ ~send[q].aborted

\* ------------------------------------------------------------- C14
\* C14 (as claimed): once the client has aborted a send request, the call
\* serving it invokes the adapter no more and persists no assistant
\* message.
C14_AbortedRequestStops ==
    [][\A p \in Calls :
          send[p].aborted =>
              /\ send'[p].invoked = send[p].invoked
              /\ send'[p].assistantMessage = send[p].assistantMessage]_vars

\* ------------------------------------------------------------- C15
\* C15 (as claimed): once the user has clicked Cancel during a send, the
\* input is enabled again (sending is false) and the send hands nothing to
\* onError: no banner is set for it.
C15_CancelledSendShowsNoError ==
    ui.cancelled => (~ui.sending /\ ui.onError = "none")

\* ------------------------------------------------------------- C16
\* The response is not the opaque internal error.
NotInternalError(response) ==
    response.status # 500 /\ response.error # "Internal server error"

\* C16 (as claimed): a getConversation, deleteConversation or sendMessage
\* that failed because its conversation does not exist is answered with a
\* response other than the internal error.
C16_NotFoundIsNotInternalError ==
    /\ resp.error \in NotFoundErrors =>
          NotInternalError(ErrorHandler(ServiceError(resp.error)))
    /\ \A p \in Calls :
          send[p].error \in NotFoundErrors =>
              NotInternalError(ErrorHandler(ServiceError(send[p].error)))

\* ------------------------------------------------------------- C17
\* C17 (as claimed): a complete call that ended by throwing the error of an
\* attempt that timed out or got a 5xx answer is answered with a response
\* that carries retryAfterMs and is not the internal error.
C17_UpstreamFailureGetsRetryHint ==
    (llm.pc = "thrown" /\ (TimedOut(log[Len(log)]) \/ ServerError(log[Len(log)]))) =>
        /\ ErrorHandler(llm.error).retryAfterMs > 0
        /\ NotInternalError(ErrorHandler(llm.error))

\* ------------------------------------------------------------- C18
\* C18 (as claimed): complete returns only with a completion, and an attempt
\* answered with a body that lacks the completion field is the last one:
\* complete has thrown its error.
C18_NoReturnWithoutCompletion ==
    /\ llm.pc = "returned" => llm.result = "completion"
    /\ \A i \in 1..Len(log) :
          log[i].outcome = "missing" =>
              (i = Len(log) /\ llm.pc = "thrown" /\ llm.error = log[i].error)

\* ------------------------------------------------------------- C19
\* The n most recently created of the messages S (ids sort in creation
\* order).
Newest(S, n) == {i \in S : Cardinality({j \in S : j > i}) < n}

\* Oldest first.
Ascending(s) == \A i, j \in 1..Len(s) : i < j => s[i] < s[j]

\* C19 (as claimed): a getConversation without cursor has returned exactly
\* the min(limit, N) most recently created of the N messages that existed,
\* oldest first, with prevCursor null, and nextCursor null exactly when
\* N <= limit.
C19_FirstPageIsNewest ==
    (get.pc = "done" /\ get.cursor = 0) =>
        /\ Range(Ids(page.messages)) = Newest(get.existing, get.limit)
        /\ Ascending(Ids(page.messages))
        /\ page.prevCursor = 0
        /\ page.nextCursor = 0 <=> Cardinality(get.existing) <= get.limit

\* ------------------------------------------------------------- C20
\* C20 (as claimed): a getConversation with cursor C has returned exactly the
\* up to limit newest of the messages with id <= C, oldest first, and no
\* message newer than the cursor message.
C20_CursorPageIsNewestUpToCursor ==
    (get.pc = "done" /\ get.cursor # 0) =>
        /\ Range(Ids(page.messages)) =
              Newest({i \in get.existing : i <= get.cursor}, get.limit)
        /\ Ascending(Ids(page.messages))
        /\ \A i \in Range(Ids(page.messages)) : i <= get.cursor

\* ------------------------------------------------------------- C21
\* The role and content of each message of a page.
Turns(s) == [i \in 1..Len(s) |-> [role |-> s[i].role, content |-> s[i].content]]

\* Call p is the one sendMessage the conversation `id` has had: it sent
\* `content`, the backend answered `completion`, it has returned, and no
\* other call named the conversation.
OnlySend(p, id, content, completion) ==
    /\ send[p].pc = "done"
    /\ send[p].conversationId = id
    /\ send[p].content = content
    /\ send[p].response = completion
    /\ \A q \in Calls \ {p} : send[q].conversationId # id

\* C21 (as claimed): after createConversation and one sendMessage with
\* content 'Hello' that the backend answered with 'Hi there', a
\* getConversation without cursor that reads the two messages returns
\* exactly user/'Hello' then assistant/'Hi there', and nextCursor null.
C21_HelloThenHiThere ==
    \A p \in Calls :
        (/\ OnlySend(p, get.id, "Hello", "Hi there")
         /\ get.pc = "done" /\ get.cursor = 0
         /\ get.existing = {send[p].userMessage.id, send[p].assistantMessage.id}) =>
            /\ Turns(page.messages) = <<[role |-> "user", content |-> "Hello"],
                                        [role |-> "assistant", content |-> "Hi there"]>>
            /\ page.nextCursor = 0

\* ------------------------------------------------------------- C22
\* The createdAt of the most recent message of conversation id, 0 (null)
\* when it has none.
NewestMessageAt(id) ==
    IF MessagesOf(id) = {} THEN 0
    ELSE CHOOSE t \in {m.createdAt : m \in MessagesOf(id)} :
            \A m \in MessagesOf(id) : m.createdAt <= t

InCreationOrder(id) ==
    CHOOSE s \in [1..Cardinality(MessagesOf(id)) -> MessagesOf(id)] :
        \A i, j \in 1..Cardinality(MessagesOf(id)) : i < j => s[i].id < s[j].id

\* C23 (as claimed): in every conversation, every assistant message comes
\* right after the user message of the call that produced it (so no two
\* assistant messages are adjacent), also when calls overlap.
C23_AssistantFollowsItsUserMessage ==
    \A c \in conversations :
        LET s == InCreationOrder(c.id)
        IN \A i \in 1..Len(s) :
              s[i].role = "assistant" =>
                  /\ i > 1
                  /\ s[i - 1].role = "user"
                  /\ \A p \in Calls :
                        send[p].assistantMessage = s[i] => send[p].userMessage = s[i - 1]

\* ------------------------------------------------------------- C25
\* The createdAt of the newest assistant message of conversation id, 0
\* (null) when it has none.
NewestAssistantAt(id) ==
    LET A == {m \in MessagesOf(id) : m.role = "assistant"}
    IN IF A = {} THEN 0
       ELSE (CHOOSE m \in A : \A o \in A : o.id <= m.id).createdAt

\* Every sendMessage call that was started has returned or thrown.
AllFinished == \A p \in Calls : send[p].pc \in {"idle", "done", "failed"}

\* C25 (as claimed): no step lowers a conversation's stored lastMessageAt,
\* and whenever every call has finished it equals the createdAt of the
\* conversation's newest assistant message.
C25_LastMessageAtAdvances ==
    [][\A c \in conversations : \A d \in conversations' :
          d.id = c.id =>
              /\ d.lastMessageAt >= c.lastMessageAt
              /\ AllFinished' => d.lastMessageAt = NewestAssistantAt(d.id)']_vars

\* ------------------------------------------------------------- C26
\* Among the rows M, an assistant reply of conversation id.
HasReply(M, id) == \E m \in M : m.conversationId = id /\ m.role = "assistant"

\* C26 (as claimed): the stored lastMessageAt of a conversation, and the
\* lastMessageAt listConversations reports for it, are null as long as no
\* assistant reply is stored in it; the step with which a sendMessage
\* returns leaves the stored value at the createdAt of its assistant reply.
C26_LastActivityIsTheReply ==
    [][/\ \A c \in conversations' : ~HasReply(messages', c.id) => c.lastMessageAt = 0
       /\ (list = NoList /\ list' # NoList) =>
              \A i \in 1..Len(list'.rows) :
                  ~HasReply(messages', list'.rows[i].id) => list'.rows[i].lastMessageAt = 0
       /\ \A p \in Calls :
              (send[p].pc # "done" /\ send'[p].pc = "done") =>
                  \A c \in conversations' :
                      c.id = send[p].conversationId =>
                          c.lastMessageAt = send'[p].assistantMessage.createdAt]_vars

\* ------------------------------------------------------------- C27
\* The messages that existed when the page was read and are not on it.
Excluded == get.existing \ Range(Ids(page.messages))

\* The messages that existed when the page was read and are older than
\* every message of the page.
OlderThanPage == {i \in get.existing : \A j \in Range(Ids(page.messages)) : i < j}

\* C27 (as claimed): a non-null nextCursor is the id of the oldest message
\* that the page does not return, and nextCursor is null exactly when no
\* message older than the page exists.
C27_NextCursorIsOldestExcluded ==
    get.pc = "done" =>
        /\ page.nextCursor # 0 =>
              /\ page.nextCursor \in Excluded
              /\ \A i \in Excluded : page.nextCursor <= i
        /\ page.nextCursor = 0 <=> OlderThanPage = {}

\* ------------------------------------------------------------- C28
\* The id of the message of conversation id that follows message i in
\* creation order, 0 (null) when i is the newest.
Follower(id, i) ==
    LET N == {m.id : m \in {n \in MessagesOf(id) : n.id > i}}
    IN IF N = {} THEN 0 ELSE CHOOSE k \in N : \A l \in N : k <= l

\* The oldest message of a non-empty page.
OldestId(pg) == CHOOSE k \in Range(Ids(pg.messages)) : \A l \in Range(Ids(pg.messages)) : k <= l

\* C28 (as claimed): a call without cursor returns prevCursor null; a call
\* with a cursor returns the id of the message that follows the oldest
\* message of its page in creation order, null when there is none or when
\* the page is empty.
C28_PrevCursorFollowsOldest ==
    [][get'.pc = "done" /\ get.pc # "done" =>
          /\ get.cursor = 0 => page'.prevCursor = 0
          /\ get.cursor # 0 =>
                page'.prevCursor = IF page'.messages = <<>> THEN 0
                                   ELSE Follower(get.id, OldestId(page'))]_vars

\* ------------------------------------------------------------- C29
\* Call p saves its user message and invokes complete in this step.
Invokes(p) == send[p].pc = "create_user" /\ send'[p].pc = "awaiting"

\* C29 (as claimed): the history a call passes to complete is non-empty,
\* has roles user and assistant only, is in ascending order of creation
\* timestamp, ends with the new user turn, and has an entry for every
\* message that was stored in the conversation when the call saved its user
\* message.
C29_HistoryIsCompleteAndOrdered ==
    [][\A p \in Calls :
          Invokes(p) =>
              LET history == send'[p].messages
                  found == send'[p].history
              IN /\ history # <<>>
                 /\ \A i \in 1..Len(history) : history[i].role \in {"user", "assistant"}
                 /\ \A i, j \in 1..Len(found) : i < j => found[i].createdAt <= found[j].createdAt
                 /\ Len(history) = Len(found) + 1
                 /\ history[Len(history)] = [role |-> "user", content |-> send[p].content]
                 /\ \A i \in 1..Len(found) :
                       history[i] = [role |-> found[i].role, content |-> found[i].content]
                 /\ MessagesOf(send[p].conversationId) \subseteq Range(found)]_vars

\* ------------------------------------------------------------- C30
\* Call p has returned with its own user and assistant message stored.
Completed(p) ==
    /\ send[p].pc = "done"
    /\ send[p].userMessage \in messages
    /\ send[p].assistantMessage \in messages
    /\ send[p].userMessage.role = "user"
    /\ send[p].assistantMessage.role = "assistant"
    /\ send[p].assistantMessage.id > send[p].userMessage.id
    /\ \A q \in Calls \ {p} :
          {send[p].userMessage, send[p].assistantMessage}
              \cap {send[q].userMessage, send[q].assistantMessage} = {}

\* C30: sendMessage calls on one conversation do not exclude each other:
\* whatever the other calls are doing, a call can be started and every call
\* being served can take its next step (none waits for another), and every
\* call that has returned has stored its own user and assistant message.
C30_SendsAreNotExcluded ==
    \A p \in Calls :
        /\ send[p].pc = "idle" => \A id \in ConvIds : ENABLED SendFind(p, id, "Hello")
        /\ send[p].pc = "create_user" => ENABLED SendCreateUser(p)
        /\ send[p].pc = "awaiting" => ENABLED SendAdapterOk(p, "Hi there")
        /\ send[p].pc = "create_assistant" => ENABLED SendCreateAssistant(p)
        /\ send[p].pc = "update" => ENABLED SendUpdate(p)
        /\ send[p].pc = "done" => Completed(p)

\* Two calls on one conversation have both returned, each with its own two
\* messages stored, and the reply of one of them was produced from a
\* history without the user message that the other had stored before the
\* first invoked its adapter.
C30_Witness ==
    \E p, q \in Calls :
        /\ p # q
        /\ send[p].conversationId = send[q].conversationId
        /\ Completed(p)
        /\ Completed(q)
        /\ send[q].userMessage.id < send[p].userMessage.id
        /\ send[q].userMessage \notin Range(send[p].history)
        /\ Len(send[p].messages) = Len(send[p].history) + 1

\* ------------------------------------------------------------- C24
\* The timers armed to delete conversation id.
ArmedFor(id) == {t \in app.timers : t.id = id}

\* C24 (as claimed): a conversation the user deletes leaves the list in
\* that step; one the user restores with Undo is back in the list in that
\* step; no more delete requests are sent for a conversation than
\* deletions of it were left standing (none for an undone one); and every
\* deletion left standing has its request sent or its timer still armed to
\* send it.
C24_DeleteIsSentUnlessUndone ==
    [][\A id \in ListedIds :
          /\ app'.kept[id] > app.kept[id] => id \notin Range(app'.conversations)
          /\ app'.kept[id] < app.kept[id] => id \in Range(app'.conversations)
          /\ app'.sent[id] <= app'.kept[id]
          /\ app'.kept[id] <= app'.sent[id] + Cardinality(ArmedFor(id)')]_vars

\* ------------------------------------------------------------ C31
\* The sum of the delays a call has waited.
RECURSIVE TotalWait(_)
TotalWait(delays) ==
    IF delays = <<>> THEN 0 ELSE delays[1] + TotalWait(Tail(delays))

\* C31: the wait that follows failed attempt k of complete is exactly
\* retryDelayMs * 2^k (1000 ms, then 2000 ms with the default delay), one
\* wait per retried attempt, so a call that succeeds on its third attempt
\* has waited at least retryDelayMs + 2 * retryDelayMs.
C31_BackoffDoubles ==
    /\ Len(llm.delays) = (IF llm.pc = "sleep" THEN llm.attempt + 1 ELSE llm.attempt)
    /\ \A k \in 0..(Len(llm.delays) - 1) : llm.delays[k + 1] = llm.retryDelayMs * 2 ^ k
    /\ (llm.retryDelayMs = DefaultRetryDelayMs /\ Len(llm.delays) >= 2)
           => llm.delays[1] = 1000 /\ llm.delays[2] = 2000
    /\ (llm.pc = "returned" /\ llm.attempt = 2)
           => TotalWait(llm.delays) >= llm.retryDelayMs + 2 * llm.retryDelayMs

\* A call of a non-default delay returned on its third attempt, after two
\* waits.
C31_Witness ==
    /\ llm.pc = "returned"
    /\ llm.attempt = 2
    /\ llm.retryDelayMs = 500
    /\ llm.delays = <<500, 1000>>

\* ------------------------------------------------------------ C32
\* All maxRetries + 1 attempts were made and each ended in a timeout or a
\* server error.
Exhausted ==
    /\ Len(log) = llm.maxRetries + 1
    /\ \A i \in 1..Len(log) : TimedOut(log[i]) \/ ServerError(log[i])

\* What the caller makes of a thrown error: errorHandler's classification.
UpstreamKind(error) ==
    IF ErrorHandler(error).status = 504 THEN "timeout"
    ELSE IF ErrorHandler(error).status = 502 THEN "server error"
    ELSE "other"

\* C32: when every one of the maxRetries + 1 attempts failed with a timeout
\* or a server error, complete throws the error of the last attempt, and
\* the caller recognises that error as an upstream timeout or an upstream
\* server error, whichever the last attempt ended in.
C32_ExhaustionSurfacesLastErrorTagged ==
    Exhausted =>
        /\ llm.pc = "thrown"
        /\ llm.error = log[Len(log)].error
        /\ UpstreamKind(llm.error) =
               (IF TimedOut(log[Len(log)]) THEN "timeout" ELSE "server error")

\* ------------------------------------------------------------ C33
\* A complete() call is running.
Running == llm.pc \in {"fetch", "body", "sleep"}

\* C33: every complete call terminates: a running call ends, returned or
\* thrown, whatever the backend does, also when it never answers or never
\* finishes its response body.
C33_CompleteTerminates == Running ~> llm.pc \in {"returned", "thrown"}

\* ------------------------------------------------------------ C34
\* What the try block of one attempt of `adapter` ends in when the backend
\* gives the answer `e` (an entry of the log: a timeout, a refused
\* connection, a status, a body that is no JSON, or a parsed body):
\* NoError when it returns, the error it throws otherwise.
TryBlock(adapter, e) ==
    IF e.outcome = "timeout" THEN AbortError
    ELSE IF e.outcome = "refused" THEN FetchFailed
    ELSE IF e.outcome = "status" THEN StatusError(adapter, e.status)
    ELSE IF e.outcome = "malformed" THEN e.error
    ELSE IF HasCompletion(adapter, e.body) \/ adapter = "mock" THEN NoError
    ELSE MissingField

\* fetchWithRetry(content, attempt) of `adapter` run on the backend answers
\* `answers`, one per attempt: the attempts it makes, the delays it waits
\* and how it ends. "starved" when it asks for an attempt beyond the answers.
RECURSIVE FetchWithRetry(_, _, _, _, _)
FetchWithRetry(adapter, maxRetries, retryDelayMs, answers, attempt) ==
    IF attempt + 1 > Len(answers)
    THEN [attempts |-> attempt, delays |-> <<>>, kind |-> "starved"]
    ELSE LET e == answers[attempt + 1]
             error == TryBlock(adapter, e)
         IN  IF error = NoError
             THEN [attempts |-> attempt + 1, delays |-> <<>>,
                   kind |-> IF HasCompletion(adapter, e.body)
                            THEN "completion" ELSE "undefined"]
             ELSE IF (IsTimeout(error) \/ Is500Error(error))
                     /\ AttemptsLeft(attempt, maxRetries)
             THEN LET rest == FetchWithRetry(adapter, maxRetries, retryDelayMs,
                                             answers, attempt + 1)
                  IN  [rest EXCEPT !.delays = <<Delay(retryDelayMs, attempt)>> \o @]
             ELSE [attempts |-> attempt + 1, delays |-> <<>>, kind |-> error.name]

\* The other adapter.
Other(adapter) == IF adapter = "mock" THEN "ollama" ELSE "mock"

\* How the call of the steps has ended.
Ended ==
    [attempts |-> llm.attempt + 1, delays |-> llm.delays,
     kind |-> IF llm.pc = "returned" THEN llm.result ELSE llm.error.name]

\* The steps and fetchWithRetry as one function of the answers agree on the
\* adapter that ran.
FetchWithRetryMatchesSteps ==
    llm.pc \in {"returned", "thrown"} =>
        FetchWithRetry(llm.adapter, llm.maxRetries, llm.retryDelayMs, log, 0) = Ended

\* C34: the two adapters follow the same failure/retry state machine: on
\* the backend answers one adapter's call has met, and with the same
\* maxRetries and retryDelayMs, the other adapter makes the same number of
\* attempts, waits the same delays and ends in the same kind of outcome.
C34_AdaptersAgree ==
    llm.pc \in {"returned", "thrown"} =>
        FetchWithRetry(Other(llm.adapter), llm.maxRetries, llm.retryDelayMs, log, 0) = Ended

\* ------------------------------------------------------------ C35
\* The numbers handed out by the createConversation calls of one process
\* differ from one another.
NumbersDiffer ==
    \A i, j \in 1..Len(titles) :
        (i # j /\ titles[i].epoch = titles[j].epoch) => titles[i].num # titles[j].num

\* C35: the value initCounter writes to conversationCounter never discards
\* an increment already made, and a createConversation call, also one that
\* ran before initCounter had finished, is given a number no other call of
\* the process is given.
C35_InitCounterKeepsIncrements ==
    [][/\ (initPc = "assign" /\ initPc' = "done")
              => conversationCounter' >= conversationCounter
       /\ NumbersDiffer']_vars

\* ------------------------------------------------------------ C36
\* Deletions of conversation id that the user left standing and whose
\* delete request has not been sent to the backend.
Unsent(id) == app.kept[id] > app.sent[id]

\* C36: for every conversation the user deleted and did not restore with
\* Undo, the delete request is eventually sent to the backend, also when
\* another conversation is deleted while its timer is pending.
C36_DeletionReachesBackend ==
    \A id \in ListedIds : Unsent(id) ~> ~Unsent(id)

\* ------------------------------------------------------------ C37
\* C37: once the conversation the user selected last has been loaded (no
\* getConversation is in flight), every message the conversation view shows
\* is a message of the selected conversation, also when the reply to a send
\* arrives after another conversation was selected and loaded.
C37_ViewShowsSelectedConversation ==
    (app.loads = {} /\ app.currentConv # NoConv) =>
        \A i \in 1..Len(app.currentConv.messages) :
            app.currentConv.messages[i].conversationId = app.selectedConvId

====
